---- MODULE Spec2Model ----
(***************************************************************************)
(* A model of xlsx-util (src/index.js): the reference classification, the  *)
(* sheet queries, the ordering comparators, the structural mutation engine *)
(* (moveCell, insert/delete of rows, columns and cells) and the            *)
(* containment queries.                                                    *)
(*                                                                         *)
(* A string is a sequence of one-character strings ("B7" is <<"B","7">>),  *)
(* so that the classification predicates and the A1 codec work on the      *)
(* characters as the JavaScript does.  A sheet is a function from keys     *)
(* (strings) to values: cell records under cell references, the extent     *)
(* string under the '!ref' key.                                            *)
(***************************************************************************)
EXTENDS Integers, Sequences, FiniteSets, TLC

VARIABLES sheet, op, arg, before, queue, trace, ret, undo, key, cls

vars == <<sheet, op, arg, before, queue, trace, ret, undo, key, cls>>

(***************************************************************************)
(* Bounds of the model.                                                    *)
(***************************************************************************)
\* largest zero-based column index a cell may occupy
MaxCol == 2
\* largest zero-based row index a cell may occupy
MaxRow == 2
\* largest number of populated cells of an initial sheet
MaxCells == 2
\* largest length of a key handed to the classification predicates
MaxKeyLen == 3
\* largest zero-based column and row index of the small grid
MaxQ == 1

(***************************************************************************)
(* Characters.                                                             *)
(***************************************************************************)
Letters ==
    <<"A","B","C","D","E","F","G","H","I","J","K","L","M",
      "N","O","P","Q","R","S","T","U","V","W","X","Y","Z">>

Digits == <<"0","1","2","3","4","5","6","7","8","9">>

\* charCodeAt - 64 of the upper-case letters: "A" is 1
UpperVals == [ch \in {Letters[i] : i \in 1..Len(Letters)} |->
                CHOOSE i \in 1..Len(Letters) : Letters[i] = ch]

\* charCodeAt - 48 of the digits
DigitVals == [ch \in {Digits[i] : i \in 1..Len(Digits)} |->
                (CHOOSE i \in 1..Len(Digits) : Digits[i] = ch) - 1]

isUpper(ch) == ch \in DOMAIN UpperVals

isDigit(ch) == ch \in DOMAIN DigitVals

upperVal(ch) == UpperVals[ch]

digitVal(ch) == DigitVals[ch]

\* String.prototype.indexOf of one character, one-based; 0 when absent (-1 in JS)
indexOf(str, ch) ==
    IF \E i \in 1..Len(str) : str[i] = ch
    THEN CHOOSE i \in 1..Len(str) : str[i] = ch /\ \A j \in 1..(i-1) : str[j] # ch
    ELSE 0

\* "" + n for an integer n
RECURSIVE toString(_)
toString(n) ==
    IF n < 0 THEN <<"-">> \o toString(-n)
    ELSE IF n < 10 THEN <<Digits[n + 1]>>
    ELSE toString(n \div 10) \o <<Digits[(n % 10) + 1]>>

(***************************************************************************)
(* The A1 codec the module takes from the xlsx library                     *)
(* (XLSX.utils.decode_cell, encode_cell, decode_range).                    *)
(***************************************************************************)
RECURSIVE decodeLoop(_, _, _, _)
decodeLoop(cstr, i, R, C) ==
    IF i > Len(cstr) THEN [R |-> R, C |-> C]
    ELSE IF isDigit(cstr[i]) THEN decodeLoop(cstr, i + 1, 10 * R + digitVal(cstr[i]), C)
    ELSE IF isUpper(cstr[i]) THEN decodeLoop(cstr, i + 1, R, 26 * C + upperVal(cstr[i]))
    ELSE decodeLoop(cstr, i + 1, R, C)

\* the zero-based {c, r} address of a cell reference
getCellAddress(ref) ==
    LET acc == decodeLoop(ref, 1, 0, 0)
    IN  [c |-> acc.C - 1, r |-> acc.R - 1]

\* the column letters of the one-based column number col >= 0 ("" for 0)
RECURSIVE encodeCol(_)
encodeCol(col) ==
    IF col = 0 THEN <<>>
    ELSE encodeCol((col - 1) \div 26) \o <<Letters[((col - 1) % 26) + 1]>>

\* the A1 reference of a zero-based {c, r} address
getCellRef(cell) == encodeCol(cell.c + 1) \o toString(cell.r + 1)

\* the {s, e} addresses of a range reference
getRangeAddress(range) ==
    LET idx == indexOf(range, ":")
    IN  IF idx = 0
        THEN [s |-> getCellAddress(range), e |-> getCellAddress(range)]
        ELSE [s |-> getCellAddress(SubSeq(range, 1, idx - 1)),
              e |-> getCellAddress(SubSeq(range, idx + 1, Len(range)))]

(***************************************************************************)
(* Reference classification.                                               *)
(***************************************************************************)
isSpecialRef(ref) == Len(ref) > 0 /\ ref[1] = "!"

isRangeRef(ref) == indexOf(ref, ":") # 0

isCellRef(ref) == ~(isSpecialRef(ref) \/ isRangeRef(ref))

(***************************************************************************)
(* Sheet queries.                                                          *)
(***************************************************************************)
RefKey == <<"!","r","e","f">>

getSheetRange(sh) == sh[RefKey]

\* the cell references of a sheet; the enumeration order of Object.keys is
\* left open here and fixed by the caller (see sorted)
getCellRefs(sh) == {k \in DOMAIN sh : isCellRef(k)}

\* inRange with the end of the range left out
inRange_endExcluded(range, ref) ==
    LET a == getCellAddress(ref)
        r == getRangeAddress(range)
        within(s, v, e) == (s <= v) /\ (v < e)
    IN  /\ ((r.s.c < 0) \/ within(r.s.c, a.c, r.e.c))
        /\ ((r.s.r < 0) \/ within(r.s.r, a.r, r.e.r))

inRange(range, ref) ==
    LET a == getCellAddress(ref)
        r == getRangeAddress(range)
        within(s, v, e) == (s <= v) /\ (v <= e)
    IN  /\ ((r.s.c < 0) \/ within(r.s.c, a.c, r.e.c))
        /\ ((r.s.r < 0) \/ within(r.s.r, a.r, r.e.r))

getRangeCellRefs(sh, range) == {k \in getCellRefs(sh) : inRange(range, k)}

Min(S) == CHOOSE x \in S : \A y \in S : x <= y

Max(S) == CHOOSE x \in S : \A y \in S : y <= x

\* updateRange with the last row of the extent taken from minRow
updateRange_minRowTwice(sh) ==
    LET addresses == {getCellAddress(k) : k \in getCellRefs(sh)}
    IN  IF addresses = {} THEN [sheet |-> sh, ret |-> "undefined"]
        ELSE LET minCol == Min({a.c : a \in addresses})
                 maxCol == Max({a.c : a \in addresses})
                 minRow == Min({a.r : a \in addresses})
                 minRef == getCellRef([c |-> minCol, r |-> minRow])
                 maxRef == getCellRef([c |-> maxCol, r |-> minRow])
                 value  == minRef \o <<":">> \o maxRef
             IN  [sheet |-> [k \in DOMAIN sh \cup {RefKey} |->
                                IF k = RefKey THEN value ELSE sh[k]],
                  ret   |-> "sheet"]

\* the sheet after updateRange and the value updateRange returns: the sheet
\* itself ("sheet") or, on the early return, undefined
updateRange(sh) ==
    LET addresses == {getCellAddress(k) : k \in getCellRefs(sh)}
    IN  IF addresses = {} THEN [sheet |-> sh, ret |-> "undefined"]
        ELSE LET minCol == Min({a.c : a \in addresses})
                 maxCol == Max({a.c : a \in addresses})
                 minRow == Min({a.r : a \in addresses})
                 maxRow == Max({a.r : a \in addresses})
                 minRef == getCellRef([c |-> minCol, r |-> minRow])
                 maxRef == getCellRef([c |-> maxCol, r |-> maxRow])
                 value  == minRef \o <<":">> \o maxRef
             IN  [sheet |-> [k \in DOMAIN sh \cup {RefKey} |->
                                IF k = RefKey THEN value ELSE sh[k]],
                  ret   |-> "sheet"]

(***************************************************************************)
(* Position predicates.                                                    *)
(***************************************************************************)
isAtRow(row, ref) == getCellAddress(ref).r = row

isBelow(row, ref) == getCellAddress(ref).r > row

isAtCol(col, ref) == getCellAddress(ref).c = col

isAfter(col, ref) == getCellAddress(ref).c > col

(***************************************************************************)
(* Ordering.                                                               *)
(***************************************************************************)
\* sortDim that never reverses
sortDim_reverseIgnored(axis, reverse, refa, refb) ==
    LET aa == getCellAddress(refa)
        ab == getCellAddress(refb)
    IN  IF aa[axis] = ab[axis] THEN 0
        ELSE IF aa[axis] < ab[axis] THEN -1 ELSE 1

\* the comparator sortDim(axis, reverse) applied to (refa, refb)
sortDim(axis, reverse, refa, refb) ==
    LET aa == getCellAddress(refa)
        ab == getCellAddress(refb)
    IN  IF aa[axis] = ab[axis] THEN 0
        ELSE IF (aa[axis] < ab[axis]) # reverse THEN -1 ELSE 1

sortRow(reverse, refa, refb) == sortDim("r", reverse, refa, refb)

sortCol(reverse, refa, refb) == sortDim("c", reverse, refa, refb)

\* sortBottomTop sorting top to bottom
sortBottomTop_topFirst(refa, refb) == sortRow(FALSE, refa, refb)

sortBottomTop(refa, refb) == sortRow(TRUE, refa, refb)

sortTopBottom(refa, refb) == sortRow(FALSE, refa, refb)

sortEndStart(refa, refb) == sortCol(TRUE, refa, refb)

sortStartEnd(refa, refb) == sortCol(FALSE, refa, refb)

\* the orders Object.keys can enumerate the keys S in
RECURSIVE keyOrders(_)
keyOrders(S) ==
    IF S = {} THEN {<<>>}
    ELSE UNION {{<<k>> \o q : q \in keyOrders(S \ {k})} : k \in S}

\* the comparator named cmp applied to (refa, refb)
compare(cmp, refa, refb) ==
    CASE cmp = "sortBottomTop" -> sortBottomTop(refa, refb)
      [] cmp = "sortTopBottom" -> sortTopBottom(refa, refb)
      [] cmp = "sortEndStart"  -> sortEndStart(refa, refb)
      [] cmp = "sortStartEnd"  -> sortStartEnd(refa, refb)

\* the arrays Array.prototype.sort(cmp) can leave for the keys S, whatever
\* order Object.keys enumerated them in: every arrangement of S in which no
\* element is followed by one that cmp puts before it
sort(S, cmp) ==
    {q \in keyOrders(S) : \A i, j \in DOMAIN q : i < j => compare(cmp, q[i], q[j]) <= 0}

(***************************************************************************)
(* Structural mutation engine.                                             *)
(***************************************************************************)
relCell(delta, ref) ==
    LET a == getCellAddress(ref)
    IN  getCellRef([c |-> a.c + delta[1], r |-> a.r + delta[2]])

\* moveCell that copies and keeps the old location
moveCell_fromKept(sh, to, from) ==
    [k \in DOMAIN sh \cup {to} |-> IF k = to THEN sh[from] ELSE sh[k]]

\* sheet[to] = sheet[from]; delete sheet[from]
moveCell(sh, to, from) ==
    LET assigned == [k \in DOMAIN sh \cup {to} |-> IF k = to THEN sh[from] ELSE sh[k]]
    IN  [k \in DOMAIN assigned \ {from} |-> assigned[k]]

moveCellBy(sh, delta, ref) == moveCell(sh, relCell(delta, ref), ref)

\* delete sheet[ref]
clearCell(sh, ref) == [k \in DOMAIN sh \ {ref} |-> sh[k]]

\* refs.forEach(moveCellBy(sheet, delta)): the sheets the loop goes through,
\* the sheet it starts from first and the sheet it leaves last
RECURSIVE forEachMoveCellBy(_, _, _)
forEachMoveCellBy(sh, refs, delta) ==
    IF refs = <<>> THEN <<sh>>
    ELSE <<sh>> \o forEachMoveCellBy(moveCellBy(sh, delta, Head(refs)), Tail(refs), delta)

\* refs.forEach(clearCell(sheet)); the order of the deletions does not matter
RECURSIVE forEachClearCell(_, _)
forEachClearCell(sh, refs) ==
    IF refs = {} THEN sh
    ELSE LET k == CHOOSE k \in refs : TRUE
         IN  forEachClearCell(clearCell(sh, k), refs \ {k})

\* what one structural operation leaves: the sheet, the value returned, the
\* array the shift phase iterated over and the sheets it went through
result(tr, refs) ==
    LET u == updateRange(tr[Len(tr)])
    IN  [sheet |-> u.sheet, ret |-> u.ret, queue |-> refs, trace |-> tr]

\* insertRow that leaves the cells of row index where they are
insertRow_belowOnly(sh, sorted, index) ==
    LET refs == SelectSeq(sorted, LAMBDA ref : isBelow(index, ref))
    IN  result(forEachMoveCellBy(sh, refs, <<0, 1>>), refs)

\* sorted is the array getCellRefs(sheet).sort(...) produced
insertRow(sh, sorted, index) ==
    LET refs == SelectSeq(sorted, LAMBDA ref : isBelow(index, ref) \/ isAtRow(index, ref))
    IN  result(forEachMoveCellBy(sh, refs, <<0, 1>>), refs)

insertColumn(sh, sorted, index) ==
    LET refs == SelectSeq(sorted, LAMBDA ref : isAfter(index, ref) \/ isAtCol(index, ref))
    IN  result(forEachMoveCellBy(sh, refs, <<1, 0>>), refs)

\* insertCellShiftDown without the column filter
insertCellShiftDown_anyColumn(sh, sorted, ref) ==
    LET a    == getCellAddress(ref)
        refs == SelectSeq(sorted, LAMBDA k : isBelow(a.r, k) \/ isAtRow(a.r, k))
    IN  result(forEachMoveCellBy(sh, refs, <<0, 1>>), refs)

insertCellShiftDown(sh, sorted, ref) ==
    LET a    == getCellAddress(ref)
        rows == SelectSeq(sorted, LAMBDA k : isBelow(a.r, k) \/ isAtRow(a.r, k))
        refs == SelectSeq(rows, LAMBDA k : isAtCol(a.c, k))
    IN  result(forEachMoveCellBy(sh, refs, <<0, 1>>), refs)

insertCellShiftEnd(sh, sorted, ref) ==
    LET a    == getCellAddress(ref)
        cols == SelectSeq(sorted, LAMBDA k : isAfter(a.c, k) \/ isAtCol(a.c, k))
        refs == SelectSeq(cols, LAMBDA k : isAtRow(a.r, k))
    IN  result(forEachMoveCellBy(sh, refs, <<1, 0>>), refs)

\* deleteColumn without its first statement
clearColumn_nothing(sh, index) == sh

\* the sheet of deleteColumn after its first statement
clearColumn(sh, index) ==
    forEachClearCell(sh, {k \in getCellRefs(sh) : isAtCol(index, k)})

\* the sheet of deleteRow after its first statement
clearRow(sh, index) ==
    forEachClearCell(sh, {k \in getCellRefs(sh) : isAtRow(index, k)})

\* sorted is the array the second getCellRefs(sheet).sort(...) produced,
\* over the sheet clearColumn left
deleteColumn(sh, sorted, index) ==
    LET refs == SelectSeq(sorted, LAMBDA k : isAfter(index, k))
    IN  result(forEachMoveCellBy(clearColumn(sh, index), refs, <<-1, 0>>), refs)

deleteRow(sh, sorted, index) ==
    LET refs == SelectSeq(sorted, LAMBDA k : isBelow(index, k))
    IN  result(forEachMoveCellBy(clearRow(sh, index), refs, <<0, -1>>), refs)

(***************************************************************************)
(* Containment queries.                                                    *)
(***************************************************************************)
contains(sh, parentRange, childRange) ==
    \A k \in getRangeCellRefs(sh, childRange) : inRange(parentRange, k)

overlaps(sh, parentRange, childRange) ==
    \E k \in getRangeCellRefs(sh, childRange) : inRange(parentRange, k)

(***************************************************************************)
(* Inputs.                                                                 *)
(***************************************************************************)
\* the references of the cells a sheet may populate
GridRefs == {getCellRef([c |-> c, r |-> r]) : c \in 0..MaxCol, r \in 0..MaxRow}

\* the references of the small grid the containment queries work on
SmallRefs == {getCellRef([c |-> c, r |-> r]) : c \in 0..MaxQ, r \in 0..MaxQ}

\* the place of ref among the references K, columns first
RankIn(K, ref) ==
    LET a == getCellAddress(ref)
        earlier(b) == (b.c < a.c) \/ (b.c = a.c /\ b.r < a.r)
    IN  1 + Cardinality({k \in K : earlier(getCellAddress(k))})

\* the cell record {t, v} setCellValue stores for the number n; the initial
\* sheets hold a different number in every cell, so that a record moved,
\* lost or duplicated can be told
CellRecord(n) == [t |-> "n", v |-> n]

\* the extent string "min:max" of a non-empty set of cell references
ExtentOf(K) ==
    LET A == {getCellAddress(k) : k \in K}
    IN  getCellRef([c |-> Min({a.c : a \in A}), r |-> Min({a.r : a \in A})])
        \o <<":">> \o
        getCellRef([c |-> Max({a.c : a \in A}), r |-> Max({a.r : a \in A})])

\* the sheet holding a cell under each reference of K and, when it has
\* cells, their extent as '!ref'
SheetOf(K) ==
    [k \in (IF K = {} THEN {} ELSE K \cup {RefKey}) |->
        IF k = RefKey THEN ExtentOf(K) ELSE CellRecord(RankIn(K, k))]

\* the sheets with at most MaxCells cells among refs
Sheets(refs) == {SheetOf(K) : K \in {K \in SUBSET refs : Cardinality(K) <= MaxCells}}

(***************************************************************************)
(* The state: the sheet and a record of the call that has just returned    *)
(* (its name, its arguments, the sheet it was given, the array its shift   *)
(* phase iterated over, the sheets that phase went through and the value   *)
(* returned).  undo holds the sheet as it was before an insertRow or       *)
(* insertColumn when the last two calls were that insert and the delete at *)
(* the same index.  key and cls belong to the classification of a key.     *)
(***************************************************************************)
NoCall ==
    /\ op = "none"
    /\ arg = <<>>
    /\ before = <<>>
    /\ queue = <<>>
    /\ trace = <<>>
    /\ ret = "none"
    /\ undo = <<>>

Init ==
    /\ sheet \in Sheets(GridRefs)
    /\ NoCall
    /\ key = <<>>
    /\ cls = <<>>

\* the call name(a) ran on sheet and left res
Called(name, a, res, u) ==
    /\ sheet' = res.sheet
    /\ ret' = res.ret
    /\ queue' = res.queue
    /\ trace' = res.trace
    /\ op' = name
    /\ arg' = a
    /\ before' = sheet
    /\ undo' = u
    /\ UNCHANGED <<key, cls>>

\* the model keeps every cell inside the grid: a shift is taken only when
\* the cells it moves have room
RoomBelow(refs) == \A k \in refs : getCellAddress(k).r < MaxRow

RoomAfter(refs) == \A k \in refs : getCellAddress(k).c < MaxCol

InsertRow(index) ==
    /\ op = "none"
    /\ RoomBelow({k \in getCellRefs(sheet) : getCellAddress(k).r >= index})
    /\ \E sorted \in sort(getCellRefs(sheet), "sortBottomTop") :
           LET res == insertRow(sheet, sorted, index)
           IN  Called("insertRow", index, res, <<>>)

InsertColumn(index) ==
    /\ op = "none"
    /\ RoomAfter({k \in getCellRefs(sheet) : getCellAddress(k).c >= index})
    /\ \E sorted \in sort(getCellRefs(sheet), "sortEndStart") :
           LET res == insertColumn(sheet, sorted, index)
           IN  Called("insertColumn", index, res, <<>>)

InsertCellShiftDown(ref) ==
    /\ op = "none"
    /\ RoomBelow({k \in getCellRefs(sheet) :
                    /\ getCellAddress(k).c = getCellAddress(ref).c
                    /\ getCellAddress(k).r >= getCellAddress(ref).r})
    /\ \E sorted \in sort(getCellRefs(sheet), "sortBottomTop") :
           LET res == insertCellShiftDown(sheet, sorted, ref)
           IN  Called("insertCellShiftDown", ref, res, <<>>)

InsertCellShiftEnd(ref) ==
    /\ op = "none"
    /\ RoomAfter({k \in getCellRefs(sheet) :
                    /\ getCellAddress(k).r = getCellAddress(ref).r
                    /\ getCellAddress(k).c >= getCellAddress(ref).c})
    /\ \E sorted \in sort(getCellRefs(sheet), "sortEndStart") :
           LET res == insertCellShiftEnd(sheet, sorted, ref)
           IN  Called("insertCellShiftEnd", ref, res, <<>>)

\* deleteColumn(sheet)(index), called on its own or straight after
\* insertColumn(sheet)(index)
DeleteColumn(index) ==
    /\ op = "none" \/ (op = "insertColumn" /\ arg = index)
    /\ \E sorted \in sort(getCellRefs(clearColumn(sheet, index)), "sortStartEnd") :
           LET res == deleteColumn(sheet, sorted, index)
           IN  Called("deleteColumn", index, res,
                      IF op = "insertColumn" THEN <<before>> ELSE <<>>)

\* deleteRow(sheet)(index), called on its own or straight after
\* insertRow(sheet)(index)
DeleteRow(index) ==
    /\ op = "none" \/ (op = "insertRow" /\ arg = index)
    /\ \E sorted \in sort(getCellRefs(clearRow(sheet, index)), "sortTopBottom") :
           LET res == deleteRow(sheet, sorted, index)
           IN  Called("deleteRow", index, res,
                      IF op = "insertRow" THEN <<before>> ELSE <<>>)

\* the caller has the returned value and goes on to its next call: the
\* record of the call is dropped, the sheet stays as the call left it
Return ==
    /\ op # "none"
    /\ op' = "none"
    /\ arg' = <<>>
    /\ before' = <<>>
    /\ queue' = <<>>
    /\ trace' = <<>>
    /\ ret' = "none"
    /\ undo' = <<>>
    /\ UNCHANGED <<sheet, key, cls>>

Next ==
    \/ \E index \in 0..MaxRow : InsertRow(index)
    \/ \E index \in 0..MaxCol : InsertColumn(index)
    \/ \E ref \in GridRefs : InsertCellShiftDown(ref)
    \/ \E ref \in GridRefs : InsertCellShiftEnd(ref)
    \/ \E index \in 0..MaxCol : DeleteColumn(index)
    \/ \E index \in 0..MaxRow : DeleteRow(index)
    \/ Return

Spec == Init /\ [][Next]_vars

(***************************************************************************)
(* Single moves: one call of moveCell or moveCellBy on an initial sheet.   *)
(***************************************************************************)
Deltas == {<<dc, dr>> : dc \in {-1, 0, 1}, dr \in {-1, 0, 1}}

InGrid(a) == a.c \in 0..MaxCol /\ a.r \in 0..MaxRow

\* moveCell(sheet, to)(from) on a populated from
MoveCell(to, from) ==
    /\ op = "none"
    /\ from \in getCellRefs(sheet)
    /\ Called("moveCell", <<to, from>>,
              [sheet |-> moveCell(sheet, to, from), ret |-> "undefined",
               queue |-> <<>>, trace |-> <<>>], <<>>)

\* moveCellBy(sheet, delta)(ref) on a populated ref, the target in the grid
MoveCellBy(delta, ref) ==
    /\ op = "none"
    /\ ref \in getCellRefs(sheet)
    /\ InGrid([c |-> getCellAddress(ref).c + delta[1], r |-> getCellAddress(ref).r + delta[2]])
    /\ Called("moveCellBy", <<delta, ref>>,
              [sheet |-> moveCellBy(sheet, delta, ref), ret |-> "undefined",
               queue |-> <<>>, trace |-> <<>>], <<>>)

NextMove ==
    \/ \E to \in GridRefs, from \in GridRefs : MoveCell(to, from)
    \/ \E delta \in Deltas, ref \in GridRefs : MoveCellBy(delta, ref)

SpecMove == Init /\ [][NextMove]_vars

(***************************************************************************)
(* Containment queries: one call of contains or overlaps on a sheet of the *)
(* small grid.  A range is given by its corners, -1 on an axis it leaves   *)
(* open ("A:B" has no rows, "1:2" no columns), and a one-cell range either *)
(* as "A1:A1" or, short, as "A1".                                          *)
(***************************************************************************)
Ranges ==
    {rg \in [s : [c : -1..MaxQ, r : -1..MaxQ], e : [c : -1..MaxQ, r : -1..MaxQ],
             short : BOOLEAN] :
        /\ rg.s.c <= rg.e.c /\ rg.s.r <= rg.e.r
        /\ (rg.s.c < 0) = (rg.e.c < 0)
        /\ (rg.s.r < 0) = (rg.e.r < 0)
        /\ ~(rg.s.c < 0 /\ rg.s.r < 0)
        /\ rg.short => (rg.s = rg.e /\ rg.s.c >= 0 /\ rg.s.r >= 0)}

\* the A1 text of a corner, an open axis left out
CornerText(a) ==
    (IF a.c < 0 THEN <<>> ELSE encodeCol(a.c + 1)) \o
    (IF a.r < 0 THEN <<>> ELSE toString(a.r + 1))

\* the A1 text of a range
RangeText(rg) ==
    IF rg.short THEN CornerText(rg.s)
    ELSE CornerText(rg.s) \o <<":">> \o CornerText(rg.e)

InitQuery ==
    /\ sheet \in Sheets(SmallRefs)
    /\ NoCall
    /\ key = <<>>
    /\ cls = <<>>

Asked(name, a, answer) ==
    Called(name, a, [sheet |-> sheet, ret |-> answer, queue |-> <<>>, trace |-> <<>>], <<>>)

Contains(parent, child) ==
    /\ Asked("contains", <<parent, child>>,
             contains(sheet, RangeText(parent), RangeText(child)))

Overlaps(parent, child) ==
    /\ Asked("overlaps", <<parent, child>>,
             overlaps(sheet, RangeText(parent), RangeText(child)))

\* one query on each sheet
NextQuery ==
    \/ op = "none" /\ \E parent \in Ranges, child \in Ranges : Contains(parent, child)
    \/ op = "none" /\ \E parent \in Ranges, child \in Ranges : Overlaps(parent, child)

SpecQuery == InitQuery /\ [][NextQuery]_vars

(***************************************************************************)
(* Classification of a key: the three predicates and the branch rel takes. *)
(***************************************************************************)
KeyChars == {"!", ":", "A", "1"}

Keys == UNION {[1..n -> KeyChars] : n \in 1..MaxKeyLen}

\* the case of the switch in rel that ref selects
rel(ref) ==
    IF isRangeRef(ref) THEN "relRange"
    ELSE IF isCellRef(ref) THEN "relCell"
    ELSE "default"

InitClassify ==
    /\ key \in Keys
    /\ cls = <<>>
    /\ sheet = <<>>
    /\ NoCall

Classify ==
    /\ op = "none"
    /\ op' = "classify"
    /\ cls' = [special |-> isSpecialRef(key), range |-> isRangeRef(key),
               cell |-> isCellRef(key), rel |-> rel(key)]
    /\ UNCHANGED <<sheet, arg, before, queue, trace, ret, undo, key>>

NextClassify == Classify

SpecClassify == InitClassify /\ [][NextClassify]_vars

(***************************************************************************)
(* Vocabulary of the properties.                                           *)
(***************************************************************************)
StructuralOps ==
    {"insertRow", "insertColumn", "insertCellShiftDown", "insertCellShiftEnd",
     "deleteRow", "deleteColumn"}

\* the populated cell references of a sheet
Populated(sh) == DOMAIN sh \ {RefKey}

\* the reference of the cell at column c, row r
At(c, r) == getCellRef([c |-> c, r |-> r])

Col(ref) == getCellAddress(ref).c

Row(ref) == getCellAddress(ref).r

\* value is the text "min:max" of the smallest range enclosing the populated
\* cells of sh, of which there is at least one
IsMinimalExtent(value, sh) ==
    LET rg == getRangeAddress(value)
    IN  /\ value = At(rg.s.c, rg.s.r) \o <<":">> \o At(rg.e.c, rg.e.r)
        /\ \A k \in Populated(sh) :
              rg.s.c <= Col(k) /\ Col(k) <= rg.e.c /\ rg.s.r <= Row(k) /\ Row(k) <= rg.e.r
        /\ \E k \in Populated(sh) : Col(k) = rg.s.c
        /\ \E k \in Populated(sh) : Col(k) = rg.e.c
        /\ \E k \in Populated(sh) : Row(k) = rg.s.r
        /\ \E k \in Populated(sh) : Row(k) = rg.e.r

\* the sheet has cells and its '!ref' is their minimal extent
Consistent(sh) == RefKey \in DOMAIN sh /\ IsMinimalExtent(sh[RefKey], sh)

\* the entry of sheet 'after' under k is the entry of 'from' under k, absent
\* in both or equal
SameEntry(after, from, k) ==
    /\ (k \in DOMAIN after) = (k \in DOMAIN from)
    /\ k \in DOMAIN after => after[k] = from[k]

\* 'after' holds exactly the records of 'from', the record under k now
\* under target(k)
Relocated(after, from, target(_)) ==
    /\ \A k \in Populated(from) : target(k) \in Populated(after) /\ after[target(k)] = from[k]
    /\ Populated(after) = {target(k) : k \in Populated(from)}
    /\ Cardinality(Populated(after)) = Cardinality(Populated(from))

(***************************************************************************)
(* C1 as stated: after each of the six structural calls, '!ref' equals the *)
(* minimal range enclosing the populated cells.  Fails once a delete has   *)
(* emptied the sheet: '!ref' keeps the extent of cells that are gone.      *)
(***************************************************************************)
C1_RefIsMinimalExtent ==
    (op \in StructuralOps /\ RefKey \in DOMAIN sheet) => IsMinimalExtent(sheet[RefKey], sheet)

(***************************************************************************)
(* C1 amended: after each of the six structural calls, in any sequence     *)
(* from a consistent sheet, '!ref' equals the minimal range enclosing the  *)
(* populated cells when the sheet has at least one; when it has none,      *)
(* '!ref' is left as it was before the call.                               *)
(***************************************************************************)
C1_RefIsMinimalExtentUnlessEmpty ==
    op \in StructuralOps =>
        IF Populated(sheet) # {} THEN Consistent(sheet)
        ELSE SameEntry(sheet, before, RefKey)

\* a delete that left cells and changed the extent
C1_Witness ==
    /\ op = "deleteRow"
    /\ Populated(sheet) # {}
    /\ sheet[RefKey] # before[RefKey]

(***************************************************************************)
(* C2: after insertRow(sheet)(i) every cell that was at a row >= i is one  *)
(* row down with its record, every cell above row i is where it was, row i *)
(* is empty and the sheet holds no other cell; insertColumn likewise on    *)
(* the column axis.                                                        *)
(***************************************************************************)
C2_InsertShiftsFromIndex ==
    /\ op = "insertRow" =>
          /\ Relocated(sheet, before,
                       LAMBDA k : IF Row(k) >= arg THEN At(Col(k), Row(k) + 1) ELSE k)
          /\ \A k \in Populated(sheet) : Row(k) # arg
    /\ op = "insertColumn" =>
          /\ Relocated(sheet, before,
                       LAMBDA k : IF Col(k) >= arg THEN At(Col(k) + 1, Row(k)) ELSE k)
          /\ \A k \in Populated(sheet) : Col(k) # arg

\* insertRow moved two cells of one column that sat on adjacent rows
C2_Witness ==
    /\ op = "insertRow"
    /\ \E k1, k2 \in Populated(before) :
          /\ Col(k1) = Col(k2)
          /\ Row(k2) = Row(k1) + 1
          /\ Row(k1) >= arg

(***************************************************************************)
(* C3: after deleteRow(sheet)(i) the records of row i are gone, every cell *)
(* that was below row i is one row up with its record, every cell above    *)
(* row i is where it was and the sheet holds no other cell; deleteColumn   *)
(* likewise on the column axis.                                            *)
(***************************************************************************)
C3_DeleteRemovesAndShifts ==
    /\ op = "deleteRow" =>
          LET kept == [k \in {k \in DOMAIN before : k = RefKey \/ Row(k) # arg} |-> before[k]]
          IN  /\ Relocated(sheet, kept,
                           LAMBDA k : IF Row(k) > arg THEN At(Col(k), Row(k) - 1) ELSE k)
              /\ \A k \in Populated(before) :
                    Row(k) = arg => \A j \in Populated(sheet) : sheet[j] # before[k]
    /\ op = "deleteColumn" =>
          LET kept == [k \in {k \in DOMAIN before : k = RefKey \/ Col(k) # arg} |-> before[k]]
          IN  /\ Relocated(sheet, kept,
                           LAMBDA k : IF Col(k) > arg THEN At(Col(k) - 1, Row(k)) ELSE k)
              /\ \A k \in Populated(before) :
                    Col(k) = arg => \A j \in Populated(sheet) : sheet[j] # before[k]

\* deleteColumn removed a cell of the deleted column and moved the one after it
C3_Witness ==
    /\ op = "deleteColumn"
    /\ \E k1, k2 \in Populated(before) :
          /\ Col(k1) = arg
          /\ Col(k2) = arg + 1
          /\ Row(k1) = Row(k2)

(***************************************************************************)
(* C4: insertRow(sheet)(i) immediately followed by deleteRow(sheet)(i), on *)
(* a sheet with a consistent '!ref', leaves the sheet with the keys, the   *)
(* records and the '!ref' it had before the two calls; likewise            *)
(* insertColumn followed by deleteColumn.                                  *)
(***************************************************************************)
C4_InsertThenDeleteRestores ==
    (undo # <<>> /\ Consistent(undo[1])) => sheet = undo[1]

\* the pair ran on a consistent sheet and the insert had moved a cell
C4_Witness ==
    /\ op = "deleteRow"
    /\ undo # <<>>
    /\ Consistent(undo[1])
    /\ before # undo[1]

(***************************************************************************)
(* C5 as stated: each of the six structural calls returns the sheet it was *)
(* given, whatever the number of populated cells, zero included.           *)
(***************************************************************************)
C5_ReturnsTheSheet ==
    op \in StructuralOps => ret = "sheet"

(***************************************************************************)
(* C6 as stated: for every non-empty key exactly one of isSpecialRef,      *)
(* isRangeRef and isCellRef holds.                                         *)
(***************************************************************************)
C6_ExactlyOneClass ==
    op = "classify" =>
        Cardinality({n \in {"special", "range", "cell"} : cls[n]}) = 1

(***************************************************************************)
(* C7: contains(sheet)(P)(C) is true iff every populated cell lying in C   *)
(* lies in P, and overlaps(sheet)(P)(C) is true iff some populated cell    *)
(* lying in C lies in P.                                                   *)
(***************************************************************************)
\* the columns and the rows a range covers, all of them on an open axis
ColsOf(rg) == IF rg.s.c < 0 THEN 0..MaxQ ELSE rg.s.c..rg.e.c

RowsOf(rg) == IF rg.s.r < 0 THEN 0..MaxQ ELSE rg.s.r..rg.e.r

\* the populated cells of sh lying in the range rg
PopulatedIn(sh, rg) == {k \in Populated(sh) : Col(k) \in ColsOf(rg) /\ Row(k) \in RowsOf(rg)}

C7_ContainsAndOverlaps ==
    /\ op = "contains" =>
          (ret <=> PopulatedIn(sheet, arg[2]) \subseteq PopulatedIn(sheet, arg[1]))
    /\ op = "overlaps" =>
          (ret <=> PopulatedIn(sheet, arg[2]) \cap PopulatedIn(sheet, arg[1]) # {})

\* P and C share no cell, C holds a populated cell, and contains answered false
C7_Witness ==
    /\ op = "contains"
    /\ ret = FALSE
    /\ PopulatedIn(sheet, arg[2]) # {}
    /\ (ColsOf(arg[1]) \cap ColsOf(arg[2]) = {} \/ RowsOf(arg[1]) \cap RowsOf(arg[2]) = {})

(***************************************************************************)
(* C8 as stated: after moveCell(sheet, to)(from) on a populated from, key  *)
(* to holds the record that was at from, key from is absent and every      *)
(* other key is unchanged; moveCellBy likewise with to = relCell(delta).   *)
(* Fails when to = from: the record is removed, not kept under to.         *)
(***************************************************************************)
MovedTo == IF op = "moveCell" THEN arg[1] ELSE At(Col(arg[2]) + arg[1][1], Row(arg[2]) + arg[1][2])

MovedFrom == arg[2]

C8_MoveCellFrame ==
    op \in {"moveCell", "moveCellBy"} =>
        /\ MovedTo \in DOMAIN sheet
        /\ sheet[MovedTo] = before[MovedFrom]
        /\ MovedFrom \notin DOMAIN sheet
        /\ \A k \in (DOMAIN sheet \cup DOMAIN before) \ {MovedTo, MovedFrom} :
              SameEntry(sheet, before, k)

(***************************************************************************)
(* C8 amended: after moveCell(sheet, to)(from) on a populated from, key    *)
(* from is absent and every key other than to and from is unchanged; when  *)
(* to differs from from, key to holds the record that was at from; when to *)
(* is from, the record is gone.  moveCellBy likewise with                  *)
(* to = relCell(delta)(ref).                                               *)
(***************************************************************************)
C8_MoveCellFrameDistinct ==
    op \in {"moveCell", "moveCellBy"} =>
        /\ MovedFrom \notin DOMAIN sheet
        /\ MovedTo # MovedFrom => (MovedTo \in DOMAIN sheet /\ sheet[MovedTo] = before[MovedFrom])
        /\ \A k \in (DOMAIN sheet \cup DOMAIN before) \ {MovedTo, MovedFrom} :
              SameEntry(sheet, before, k)

\* a move onto another populated cell
C8_Witness ==
    /\ op = "moveCell"
    /\ MovedTo # MovedFrom
    /\ MovedTo \in Populated(before)

(***************************************************************************)
(* C9: insertCellShiftDown(sheet)(ref), ref = (c, r), moves exactly the    *)
(* cells of column c at a row >= r one row down, each with its record, and *)
(* leaves every other cell where it was; insertCellShiftEnd moves exactly  *)
(* the cells of row r at a column >= c one column on.                      *)
(***************************************************************************)
C9_CellShiftFrame ==
    /\ op = "insertCellShiftDown" =>
          Relocated(sheet, before,
                    LAMBDA k : IF Col(k) = Col(arg) /\ Row(k) >= Row(arg)
                               THEN At(Col(k), Row(k) + 1) ELSE k)
    /\ op = "insertCellShiftEnd" =>
          Relocated(sheet, before,
                    LAMBDA k : IF Row(k) = Row(arg) /\ Col(k) >= Col(arg)
                               THEN At(Col(k) + 1, Row(k)) ELSE k)

\* a cell of the column moved while a cell of another column, at a row >= r, stayed
C9_Witness ==
    /\ op = "insertCellShiftDown"
    /\ \E k1, k2 \in Populated(before) :
          /\ Col(k1) = Col(arg) /\ Row(k1) >= Row(arg)
          /\ Col(k2) # Col(arg) /\ Row(k2) >= Row(arg)
          /\ k1 \notin Populated(sheet)
          /\ k2 \in Populated(sheet)

(***************************************************************************)
(* C10: in each of the six structural calls, at every move of the shift    *)
(* phase the target is neither populated nor a cell still waiting for its  *)
(* move, so the number of populated cells stays the same through the       *)
(* phase; inserts take the cells bottom-to-top or end-to-start, deletes    *)
(* top-to-bottom or start-to-end, the deleted line cleared first.          *)
(***************************************************************************)
ShiftOf ==
    IF op \in {"insertRow", "insertCellShiftDown"} THEN <<0, 1>>
    ELSE IF op \in {"insertColumn", "insertCellShiftEnd"} THEN <<1, 0>>
    ELSE IF op = "deleteRow" THEN <<0, -1>>
    ELSE <<-1, 0>>

C10_NoMoveOntoACell ==
    op \in StructuralOps =>
        /\ Len(trace) = Len(queue) + 1
        /\ \A i \in 1..Len(queue) :
              LET target == At(Col(queue[i]) + ShiftOf[1], Row(queue[i]) + ShiftOf[2])
              IN  /\ target \notin DOMAIN trace[i]
                  /\ \A j \in (i + 1)..Len(queue) : queue[j] # target
                  /\ Cardinality(Populated(trace[i + 1])) = Cardinality(Populated(trace[1]))
        /\ \A i, j \in 1..Len(queue) :
              i < j =>
                 /\ op \in {"insertRow", "insertCellShiftDown"} => Row(queue[i]) >= Row(queue[j])
                 /\ op \in {"insertColumn", "insertCellShiftEnd"} => Col(queue[i]) >= Col(queue[j])
                 /\ op = "deleteRow" => Row(queue[i]) <= Row(queue[j])
                 /\ op = "deleteColumn" => Col(queue[i]) <= Col(queue[j])
        /\ op = "deleteRow" => \A k \in Populated(trace[1]) : Row(k) # arg
        /\ op = "deleteColumn" => \A k \in Populated(trace[1]) : Col(k) # arg

\* deleteColumn shifted two cells of one row that sat on adjacent columns
C10_Witness ==
    /\ op = "deleteColumn"
    /\ \E i, j \in 1..Len(queue) :
          /\ i < j
          /\ Row(queue[i]) = Row(queue[j])
          /\ Col(queue[j]) = Col(queue[i]) + 1

====
